---- MODULE Spec2Model ----
(***************************************************************************)
(* DataHive client: the token cache (token_service.py, TokenService) and   *)
(* the authenticated requester with its polling helper (api_script.py,     *)
(* DataHiveAPI and DataHiveClient).                                        *)
(*                                                                         *)
(* The program is single-threaded. A caller invokes one public operation   *)
(* at a time; the clock (datetime.now / time.time) advances in time.sleep  *)
(* and between operations. The identity provider and the warehouse API are *)
(* the environment: each exchange and each HTTP attempt draws its outcome  *)
(* from a small set.                                                       *)
(*                                                                         *)
(* Specifications:                                                         *)
(*   SpecToken    the token service called directly                        *)
(*   Spec         DataHiveAPI._make_request                                *)
(*   SpecWait     DataHiveClient.wait_for_query_completion                 *)
(*   SpecWaitFair SpecWait, with every call running to its end             *)
(*   SpecRace     TokenService.get_access_token called from two threads,   *)
(*                which the code allows and does not guard against         *)
(***************************************************************************)
EXTENDS Integers, Sequences, FiniteSets, TLC

(* ------------------------------ bounds -------------------------------- *)

\* Largest max_retries a configuration sets.
MaxRetries == 2
\* Tokens the identity provider issues in one behaviour; afterwards every
\* exchange fails at transport level.
MaxTokens == 2
\* Largest expires_in (seconds) the provider answers with.
MaxExpiresIn == 1
\* Largest cache_expiry_buffer (seconds) a configuration sets.
MaxBuffer == 1
\* No operation starts, and no idle time passes, after this clock value.
MaxClock == 2
\* Largest timeout (seconds) passed to wait_for_query_completion.
MaxTimeout == 6

(* ------------------------- program constants -------------------------- *)

\* cache_config.get("cache_expiry_buffer", 300)
DefaultBuffer == 300
\* token_data.get('expires_in', 3600)
DefaultExpiresIn == 3600
\* time.sleep(5) in wait_for_query_completion
PollInterval == 5
\* time.sleep(2 ** attempt)
BackoffBase == 2

(* ----------------------------- values --------------------------------- *)

\* Python's None and a present value, as sequences of length 0 and 1.
None == <<>>
Some(x) == <<x>>

\* base ** n, as Python computes 2 ** attempt for attempt >= 0.
RECURSIVE Pow(_, _)
Pow(base, n) == IF n <= 0 THEN 1 ELSE base * Pow(base, n - 1)

\* What a call hands back to its caller: a value or a raised exception.
Returned(tok) == [kind |-> "ok", token |-> tok, err |-> "none"]
Raised(e) == [kind |-> "raise", token |-> None, err |-> e]
NoResult == [kind |-> "none", token |-> None, err |-> "none"]

\* What wait_for_query_completion returns or raises; msg is the error
\* message an exception carries.
WaitResult(k, e, m) == [kind |-> k, err |-> e, msg |-> m]
NoWaitResult == WaitResult("none", "none", "none")

\* The configurations: cache.cache_expiry_buffer (absent, or a number, which
\* the code does not validate) and datahive.max_retries.
BufferConfigs == {None} \cup {Some(b) : b \in -1 .. MaxBuffer}
RetryConfigs == -1 .. MaxRetries

\* The identity provider's answers to one POST of the token endpoint:
\*   transport : requests.post or raise_for_status raises RequestException
\*   notoken   : a JSON body without access_token
\*   badexp    : a JSON body whose expires_in is not a number
\*   token     : a JSON body with access_token and expires_in (None: absent)
\* A body with access_token carries a fresh, non-empty token.
ProviderResponses(n) ==
    {[kind |-> "transport", expires_in |-> None],
     [kind |-> "notoken", expires_in |-> None]}
    \cup (IF n < MaxTokens
          THEN {[kind |-> "badexp", expires_in |-> None],
                [kind |-> "token", expires_in |-> None]}
               \cup {[kind |-> "token", expires_in |-> Some(e)] : e \in 0 .. MaxExpiresIn}
          ELSE {})

\* The outcome of one requests.request call, as _make_request tells them
\* apart: a response that is no HTTP error, a 401, another 4xx/5xx, or a
\* RequestException raised by the transport.
Outcomes == {"ok", "401", "http_error", "exception"}

\* The threads that call get_access_token on one TokenService.
Threads == {1, 2}

\* A thread outside get_access_token: seen and seenAt are the cache and the
\* clock that its validity check read, resp and tok the provider's answer
\* that it holds, x the exchanges it made.
IdleThread ==
    [pc |-> "idle",
     seen |-> [access_token |-> None, token_expires_at |-> None],
     seenAt |-> 0,
     resp |-> [kind |-> "none", expires_in |-> None],
     tok |-> 0, x |-> 0,
     ret |-> NoResult]

\* kwargs['headers'] of a _make_request call: absent or one extra header.
ExtraHeaders == {FALSE, TRUE}

\* The timeouts a caller passes to wait_for_query_completion.
Timeouts == {-1, 0, MaxTimeout}

\* status.get("state") of a status response; "absent" is a body without it.
QueryStates == {"RUNNING", "COMPLETED", "SUCCEEDED", "FAILED", "CANCELLED", "absent"}
\* status.get('error', 'Unknown error')
QueryErrors == {"Unknown error", "provider message"}

(* ------------------------------ state --------------------------------- *)

VARIABLES
    cache_expiry_buffer,  \* config: cache.cache_expiry_buffer (None: absent)
    max_retries,          \* config: datahive.max_retries
    access_token,         \* TokenService.access_token
    refresh_token,        \* TokenService.refresh_token
    token_expires_at,     \* TokenService.token_expires_at
    now,                  \* the clock
    issued,               \* tokens the provider has issued so far
    pc,                   \* where the program is
    op,                   \* the public operation running, or the last one run
    caller,               \* who called _make_request
    headers,              \* _make_request: headers
    kwHeaders,            \* _make_request: the caller passed kwargs['headers']
    attempt,              \* _make_request: attempt
    start_time,           \* wait_for_query_completion: start_time
    timeout,              \* wait_for_query_completion: timeout
    status,               \* wait_for_query_completion: status
    ret,                  \* what the last finished call returned or raised
    \* history, written only, for stating the properties
    pre,                  \* the cache when the token operation began
    exchanges,            \* credential exchanges of the token operation or request
    lastResp,             \* the provider's answer in the token operation
    nHttp,                \* HTTP requests issued by the current _make_request
    lastSent,             \* the last HTTP attempt: outcome and headers sent
    sleeps,               \* the time.sleep calls of the current _make_request
    authRetry,            \* the 401-triggered refresh before the next attempt
    nRefresh,             \* refresh_access_token calls of the current _make_request
    fallback,             \* _get_headers last took its except path
    revoked,              \* "revoked" after revoke_token, "first_get" in the
                          \* get_access_token that follows it, else "no"
    discarded,            \* the token cached when refresh_access_token was
                          \* last invoked, until an acquisition succeeds
    polls,                \* status polls of the current wait
    pollAt,               \* the clock when the last status poll began
    pollEnd,              \* the clock when the wait last went to sleep
    waitSleeps,           \* the time.sleep(5) calls of the current wait
    downloads,            \* result downloads of the current wait
    wres,                 \* what the last wait returned or raised
    \* two threads sharing one TokenService
    threads,              \* each thread's place in get_access_token and locals
    raceLog               \* the writes of the cache's fields, in order

cfgVars == <<cache_expiry_buffer, max_retries>>
\* The token service's fields and the history kept of them.
tsVars == <<access_token, refresh_token, token_expires_at, revoked, discarded>>
reqVars == <<caller, headers, attempt, nHttp, lastSent, sleeps, authRetry, fallback,
             nRefresh, kwHeaders>>
raceVars == <<threads, raceLog>>
pollHist == <<pollAt, pollEnd, waitSleeps>>
waitVars == <<start_time, timeout, status, polls, downloads, wres, pollHist>>
vars == <<cache_expiry_buffer, max_retries, access_token, refresh_token,
          token_expires_at, now, issued, pc, op, caller, headers, attempt,
          start_time, timeout, status, ret, pre, exchanges, lastResp,
          nHttp, lastSent, sleeps, authRetry, fallback, polls, downloads, wres,
          revoked, nRefresh, discarded, pollAt, pollEnd, waitSleeps,
          threads, raceLog, kwHeaders>>

(* --------------------------- TokenService ----------------------------- *)

\* The token service's mutable fields as one value.
TS == [access_token |-> access_token, token_expires_at |-> token_expires_at]

\* cache_config.get("cache_expiry_buffer", 300)
BufferSeconds(cfg) == IF cfg = None THEN DefaultBuffer ELSE cfg[1]

\* _is_token_valid without the buffer: the expiry itself is compared.
IsTokenValid_NoBuffer(ts, nw, cfg) ==
    IF ts.access_token = None \/ ts.token_expires_at = None
    THEN FALSE
    ELSE nw < ts.token_expires_at[1]

\* _is_token_valid that looks at the token only, not at its expiry.
IsTokenValid_TokenOnly(ts, nw, cfg) == ts.access_token # None

\* TokenService._is_token_valid
IsTokenValid(ts, nw, cfg) ==
    IF ts.access_token = None \/ ts.token_expires_at = None
    THEN FALSE
    ELSE nw < ts.token_expires_at[1] - BufferSeconds(cfg)

\* token_data.get('expires_in', 3600)
ExpiresIn(r) == IF r.expires_in = None THEN DefaultExpiresIn ELSE r.expires_in[1]

\* _acquire_new_token whose KeyError handler raises what the
\* RequestException handler raises.
AcquireNewToken_OneError(ts, r, nw, n) ==
    CASE r.kind \in {"transport", "notoken"} ->
            [ts |-> ts, res |-> Raised("TokenAcquisitionFailed"), issued |-> n]
      [] r.kind = "badexp" ->
            [ts |-> [ts EXCEPT !.access_token = Some(n + 1)],
             res |-> Raised("TypeError"), issued |-> n + 1]
      [] r.kind = "token" ->
            [ts |-> [access_token |-> Some(n + 1),
                     token_expires_at |-> Some(nw + ExpiresIn(r))],
             res |-> Returned(Some(n + 1)), issued |-> n + 1]

\* The Python class of each exception the model names. The two errors of
\* _acquire_new_token are both raise Exception(message): they differ in the
\* message ("Token acquisition failed: ..." / "Invalid token response: ...").
ErrorClass(e) ==
    CASE e \in {"TokenAcquisitionFailed", "InvalidTokenResponse",
                "MaxRetriesExceeded"} -> "Exception"
      [] e = "TypeError" -> "TypeError"
      [] e \in {"HTTPError", "RequestException"} -> "RequestException"

\* TokenService._acquire_new_token on the provider's answer r at time nw,
\* with n tokens issued before: the fields afterwards and the result.
\* access_token is assigned before expires_in is read, so a body whose
\* expires_in is no number leaves the new token beside the old expiry and
\* the TypeError of timedelta(seconds=...) passes both except clauses.
AcquireNewToken(ts, r, nw, n) ==
    CASE r.kind = "transport" ->
            [ts |-> ts, res |-> Raised("TokenAcquisitionFailed"), issued |-> n]
      [] r.kind = "notoken" ->
            [ts |-> ts, res |-> Raised("InvalidTokenResponse"), issued |-> n]
      [] r.kind = "badexp" ->
            [ts |-> [ts EXCEPT !.access_token = Some(n + 1)],
             res |-> Raised("TypeError"), issued |-> n + 1]
      [] r.kind = "token" ->
            [ts |-> [access_token |-> Some(n + 1),
                     token_expires_at |-> Some(nw + ExpiresIn(r))],
             res |-> Returned(Some(n + 1)), issued |-> n + 1]

\* TokenService.get_access_token; x counts the exchanges made.
GetAccessToken(ts, r, nw, n, cfg) ==
    IF IsTokenValid(ts, nw, cfg)
    THEN [ts |-> ts, res |-> Returned(ts.access_token), issued |-> n, x |-> 0]
    ELSE [x |-> 1] @@ AcquireNewToken(ts, r, nw, n)

\* refresh_access_token that keeps a token still valid, as get_access_token
\* does.
RefreshAccessToken_KeepsValid(ts, r, nw, n) ==
    GetAccessToken(ts, r, nw, n, cache_expiry_buffer)

\* TokenService.refresh_access_token: refresh_token is never set, and both
\* branches acquire a new token.
RefreshAccessToken(ts, r, nw, n) ==
    [x |-> 1] @@ AcquireNewToken(ts, r, nw, n)

\* An empty cache: no access token, no expiry.
EmptyCache == [access_token |-> None, token_expires_at |-> None]

\* revoke_token that clears the token and leaves its expiry.
RevokeTokenFields_KeepsExpiry(ts) == [ts EXCEPT !.access_token = None]

\* TokenService.revoke_token: the fields afterwards.
RevokeTokenFields(ts) ==
    IF ts.access_token = None
    THEN ts
    ELSE EmptyCache

\* TokenService.revoke_token: the value returned. Nothing in the try block
\* raises, so the except clause, which returns False, is never entered.
RevokeTokenResult(ts) ==
    IF ts.access_token = None
    THEN TRUE
    ELSE TRUE

\* The history of refreshed tokens after a call that made x exchanges with
\* result res: a successful acquisition ends it.
StillDiscarded(d, x, res) == IF x >= 1 /\ res.kind = "ok" THEN None ELSE d

\* The provider's answer as the history keeps it.
Answer(r, nw, n) ==
    [kind |-> r.kind, tok |-> n + 1, expires_in |-> ExpiresIn(r), at |-> nw]
NoAnswer == [kind |-> "none", tok |-> 0, expires_in |-> 0, at |-> 0]

(* ---------------------------- DataHiveAPI ----------------------------- *)

\* _get_headers whose except path sends the token the cache still holds.
GetHeaders_StaleAuth(ts, r, nw, n, cfg) ==
    LET g == GetAccessToken(ts, r, nw, n, cfg)
    IN  [ts |-> g.ts, issued |-> g.issued, x |-> g.x, raised |-> g.res.kind = "raise",
         headers |-> [auth |-> IF g.res.kind = "ok" THEN g.res.token
                               ELSE g.ts.access_token,
                      content |-> TRUE, extra |-> FALSE]]

\* DataHiveAPI._get_headers: Content-Type, Accept and User-Agent always;
\* Authorization (auth) when get_access_token returned; extra is set by
\* _make_request when the caller's headers are merged in.
GetHeaders(ts, r, nw, n, cfg) ==
    LET g == GetAccessToken(ts, r, nw, n, cfg)
    IN  [ts |-> g.ts, issued |-> g.issued, x |-> g.x, raised |-> g.res.kind = "raise",
         headers |-> [auth |-> IF g.res.kind = "ok" THEN g.res.token ELSE None,
                      content |-> TRUE, extra |-> FALSE]]

NoStatus == [state |-> "absent", error |-> "Unknown error"]

\* One HTTP attempt as the history keeps it: the outcome, the headers the
\* request carried, whether those headers came from the except path, the
\* clock when the request was made, and whether the token carried was then
\* the cached one and valid by _is_token_valid.
NoSent == [outcome |-> "none", auth |-> None, content |-> FALSE, extra |-> FALSE,
           fallback |-> FALSE, at |-> 0, valid |-> FALSE]

NoHeaders == [auth |-> None, content |-> FALSE, extra |-> FALSE]

Init ==
    /\ cache_expiry_buffer \in BufferConfigs
    /\ max_retries \in RetryConfigs
    /\ access_token = None
    /\ refresh_token = None
    /\ token_expires_at = None
    /\ now = 0
    /\ issued = 0
    /\ pc = "idle"
    /\ op = "none"
    /\ caller = "none"
    /\ headers = NoHeaders
    /\ kwHeaders = FALSE
    /\ attempt = 0
    /\ start_time = 0
    /\ timeout = 0
    /\ status = NoStatus
    /\ ret = NoResult
    /\ pre = TS
    /\ exchanges = 0
    /\ lastResp = NoAnswer
    /\ nHttp = 0
    /\ lastSent = NoSent
    /\ sleeps = <<>>
    /\ authRetry = None
    /\ fallback = FALSE
    /\ revoked = "no"
    /\ discarded = None
    /\ nRefresh = 0
    /\ polls = 0
    /\ pollAt = 0
    /\ pollEnd = 0
    /\ waitSleeps = 0
    /\ downloads = 0
    /\ wres = NoWaitResult
    /\ threads = [t \in Threads |-> IdleThread]
    /\ raceLog = <<>>

\* A public operation begins: the caller is idle and the horizon not passed.
CanStart == pc = "idle" /\ op = "none" /\ now <= MaxClock

\* The history of a finished call is cleared.
Forget ==
    /\ op' = "none"
    /\ ret' = NoResult
    /\ pre' = TS
    /\ exchanges' = 0
    /\ lastResp' = NoAnswer
    /\ caller' = "none"
    /\ headers' = NoHeaders
    /\ kwHeaders' = FALSE
    /\ attempt' = 0
    /\ nHttp' = 0
    /\ lastSent' = NoSent
    /\ sleeps' = <<>>
    /\ authRetry' = None
    /\ fallback' = FALSE
    /\ nRefresh' = 0
    /\ start_time' = 0
    /\ timeout' = 0
    /\ status' = NoStatus
    /\ polls' = 0
    /\ pollAt' = 0
    /\ pollEnd' = 0
    /\ waitSleeps' = 0
    /\ downloads' = 0
    /\ wres' = NoWaitResult

\* The caller takes the result of the operation that finished.
Done ==
    /\ pc = "idle"
    /\ op # "none"
    /\ Forget
    /\ UNCHANGED <<cfgVars, raceVars, tsVars, now, issued, pc>>

\* Time passes between operations.
Tick ==
    /\ pc = "idle"
    /\ op = "none"
    /\ now < MaxClock
    /\ now' = now + 1
    /\ UNCHANGED <<cfgVars, raceVars, tsVars, issued, pc, op, ret, pre, exchanges,
                   lastResp, reqVars, waitVars>>

\* The caller invokes TokenService.get_access_token.
GetValidToken ==
    /\ CanStart
    /\ \E r \in ProviderResponses(issued) :
         LET g == GetAccessToken(TS, r, now, issued, cache_expiry_buffer)
         IN  /\ access_token' = g.ts.access_token
             /\ token_expires_at' = g.ts.token_expires_at
             /\ issued' = g.issued
             /\ ret' = g.res
             /\ exchanges' = g.x
             /\ lastResp' = IF g.x = 1 THEN Answer(r, now, issued) ELSE lastResp
    /\ op' = "get"
    /\ pre' = TS
    /\ revoked' = IF revoked = "revoked" THEN "first_get" ELSE "no"
    /\ discarded' = StillDiscarded(discarded, exchanges', ret')
    /\ UNCHANGED <<cfgVars, raceVars, refresh_token, now, pc, reqVars, waitVars>>

\* The caller invokes TokenService.refresh_access_token.
ForceRefresh ==
    /\ CanStart
    /\ \E r \in ProviderResponses(issued) :
         LET g == RefreshAccessToken(TS, r, now, issued)
         IN  /\ access_token' = g.ts.access_token
             /\ token_expires_at' = g.ts.token_expires_at
             /\ issued' = g.issued
             /\ ret' = g.res
             /\ exchanges' = g.x
             /\ lastResp' = Answer(r, now, issued)
    /\ op' = "refresh"
    /\ pre' = TS
    /\ revoked' = "no"
    /\ discarded' = StillDiscarded(access_token, exchanges', ret')
    /\ UNCHANGED <<cfgVars, raceVars, refresh_token, now, pc, reqVars, waitVars>>

\* The caller invokes TokenService.revoke_token; it returns True.
RevokeToken ==
    /\ CanStart
    /\ access_token' = RevokeTokenFields(TS).access_token
    /\ token_expires_at' = RevokeTokenFields(TS).token_expires_at
    /\ refresh_token' = IF access_token = None THEN refresh_token ELSE None
    /\ ret' = Returned(Some(RevokeTokenResult(TS)))
    /\ revoked' = "revoked"
    /\ discarded' = discarded
    /\ op' = "revoke"
    /\ pre' = TS
    /\ exchanges' = 0
    /\ UNCHANGED <<cfgVars, raceVars, now, issued, pc, lastResp, reqVars, waitVars>>

\* A TokenService used on its own: the requester's max_retries is never read.
InitToken == Init /\ max_retries = 0

NextToken ==
    \/ Tick
    \/ Done
    \/ GetValidToken
    \/ ForceRefresh
    \/ RevokeToken

SpecToken == InitToken /\ [][NextToken]_vars

(* --------------------- DataHiveAPI._make_request ---------------------- *)

\* Where control goes when _make_request returns or raises.
ReturnTo(c) ==
    CASE c = "user" -> "idle"
      [] c = "status" -> "wait_status"
      [] c = "download" -> "wait_download"

\* for attempt in range(self.max_retries + 1): the loop body runs for att.
InLoop(att, mr) == att >= 0 /\ att < mr + 1

\* A retry that does not draw on the loop counter.
NextAttempt_Stuck(att) == att

\* The loop's next value of attempt, after continue or the end of the body.
NextAttempt(att) == att + 1

\* A 401 branch that is never taken: a 401 is an HTTP error like another.
IsAuthRetry_Never(o, att, mr) == FALSE

\* A 401 branch taken on the last attempt too.
IsAuthRetry_AlsoLast(o, att, mr) == o = "401"

\* The condition of the 401 branch: response.status_code == 401 and
\* attempt < self.max_retries.
IsAuthRetry(o, att, mr) == o = "401" /\ att < mr

\* A re-raise one attempt late.
IsLastAttempt_Late(att, mr) == att = mr + 1

\* The condition of the re-raise: attempt == self.max_retries.
IsLastAttempt(att, mr) == att = mr

\* The exception an attempt that failed raises inside the try block:
\* raise_for_status raises HTTPError, the transport a RequestException.
AttemptError(o) == IF o = "exception" THEN "RequestException" ELSE "HTTPError"

\* A linear backoff, 2 * attempt.
BackoffDelay_Linear(att) == BackoffBase * att

\* time.sleep(2 ** attempt)
BackoffDelay(att) == Pow(BackoffBase, att)

\* requests.request(..., headers=headers, ...) answered with outcome o.
Sent(o) == [outcome |-> o, auth |-> headers.auth, content |-> headers.content,
            extra |-> headers.extra, fallback |-> fallback, at |-> now,
            valid |-> /\ headers.auth = access_token
                      /\ IsTokenValid(TS, now, cache_expiry_buffer)]

\* headers.update(kwargs.pop('headers')): the caller's headers over the
\* built ones.
MergeExtra(h, extra) == [h EXCEPT !.extra = extra]

\* _make_request up to its loop: the headers are built, the caller's
\* headers merged over them, and the loop reached.
BeginRequest(c, extra, x0) ==
    /\ \E r \in ProviderResponses(issued) :
         LET h == GetHeaders(TS, r, now, issued, cache_expiry_buffer)
         IN  /\ access_token' = h.ts.access_token
             /\ token_expires_at' = h.ts.token_expires_at
             /\ issued' = h.issued
             /\ exchanges' = x0 + h.x
             /\ headers' = MergeExtra(h.headers, extra)
             /\ fallback' = h.raised
             /\ discarded' = IF h.x >= 1 /\ ~h.raised THEN None ELSE discarded
    /\ revoked' = "no"
    /\ kwHeaders' = extra
    /\ caller' = c
    /\ attempt' = 0
    /\ nHttp' = 0
    /\ lastSent' = NoSent
    /\ sleeps' = <<>>
    /\ authRetry' = None
    /\ nRefresh' = 0
    /\ pc' = "attempt"
    /\ ret' = NoResult
    /\ UNCHANGED <<cfgVars, raceVars, refresh_token, now, pre, lastResp>>

\* The caller invokes _make_request (through any endpoint wrapper).
SendStart ==
    /\ CanStart
    /\ \E extra \in ExtraHeaders : BeginRequest("user", extra, 0)
    /\ op' = "send"
    /\ UNCHANGED waitVars

\* An attempt whose response is no HTTP error: raise_for_status passes and
\* the response is returned.
AttemptOk ==
    /\ pc = "attempt"
    /\ InLoop(attempt, max_retries)
    /\ nHttp' = nHttp + 1
    /\ lastSent' = Sent("ok")
    /\ ret' = Returned(None)
    /\ pc' = ReturnTo(caller)
    /\ authRetry' = None
    /\ UNCHANGED <<cfgVars, raceVars, tsVars, now, issued, op, caller, headers, attempt,
                   pre, exchanges, lastResp, sleeps, fallback, nRefresh, kwHeaders, waitVars>>

\* An attempt answered 401 with attempts remaining: refresh_access_token,
\* then the headers are rebuilt by _get_headers (the caller's extra headers
\* are not merged again) and the loop continues without sleeping. An
\* exception of refresh_access_token is no RequestException: it leaves
\* _make_request at once.
AttemptAuthRetry ==
    /\ pc = "attempt"
    /\ InLoop(attempt, max_retries)
    /\ IsAuthRetry("401", attempt, max_retries)
    /\ nHttp' = nHttp + 1
    /\ lastSent' = Sent("401")
    /\ \E r1 \in ProviderResponses(issued) :
         LET f == RefreshAccessToken(TS, r1, now, issued)
         IN  IF f.res.kind = "raise"
             THEN /\ access_token' = f.ts.access_token
                  /\ token_expires_at' = f.ts.token_expires_at
                  /\ issued' = f.issued
                  /\ exchanges' = exchanges + f.x
                  /\ authRetry' = Some([tok |-> None, x |-> f.x])
                  /\ discarded' = access_token
                  /\ ret' = Raised(f.res.err)
                  /\ pc' = ReturnTo(caller)
                  /\ UNCHANGED <<headers, attempt, fallback>>
             ELSE \E r2 \in ProviderResponses(f.issued) :
                    LET h == GetHeaders(f.ts, r2, now, f.issued, cache_expiry_buffer)
                    IN  /\ access_token' = h.ts.access_token
                        /\ token_expires_at' = h.ts.token_expires_at
                        /\ issued' = h.issued
                        /\ exchanges' = exchanges + f.x + h.x
                        /\ authRetry' = Some([tok |-> f.res.token, x |-> f.x + h.x])
                        /\ headers' = h.headers
                        /\ fallback' = h.raised
                        /\ attempt' = NextAttempt(attempt)
                        /\ discarded' = None
                        /\ ret' = NoResult
                        /\ pc' = "attempt"
    /\ revoked' = "no"
    /\ nRefresh' = nRefresh + 1
    /\ UNCHANGED <<cfgVars, raceVars, refresh_token, now, op, caller, kwHeaders, pre,
                   lastResp, sleeps, waitVars>>

\* A failed attempt with attempts remaining (an HTTP error that the 401
\* branch did not take, or a transport exception): the loop sleeps
\* 2 ** attempt and goes on.
AttemptBackoff ==
    /\ pc = "attempt"
    /\ InLoop(attempt, max_retries)
    /\ ~IsLastAttempt(attempt, max_retries)
    /\ \E o \in Outcomes \ {"ok"} :
         /\ ~IsAuthRetry(o, attempt, max_retries)
         /\ lastSent' = Sent(o)
         /\ sleeps' = Append(sleeps, [attempt |-> attempt, outcome |-> o,
                                      delay |-> BackoffDelay(attempt)])
    /\ nHttp' = nHttp + 1
    /\ now' = now + BackoffDelay(attempt)
    /\ attempt' = NextAttempt(attempt)
    /\ authRetry' = None
    /\ UNCHANGED <<cfgVars, raceVars, tsVars, issued, pc, op, caller, headers, ret, pre,
                   exchanges, lastResp, fallback, nRefresh, kwHeaders, waitVars>>

\* A failed last attempt (a 401 included: the 401 branch needs attempts
\* remaining): the exception is raised again.
AttemptRaise ==
    /\ pc = "attempt"
    /\ InLoop(attempt, max_retries)
    /\ IsLastAttempt(attempt, max_retries)
    /\ \E o \in Outcomes \ {"ok"} :
         /\ ~IsAuthRetry(o, attempt, max_retries)
         /\ lastSent' = Sent(o)
         /\ ret' = Raised(AttemptError(o))
    /\ nHttp' = nHttp + 1
    /\ pc' = ReturnTo(caller)
    /\ authRetry' = None
    /\ UNCHANGED <<cfgVars, raceVars, tsVars, now, issued, op, caller, headers, attempt,
                   pre, exchanges, lastResp, sleeps, fallback, nRefresh, kwHeaders, waitVars>>

\* The loop ran out without returning or raising: raise
\* Exception("Max retries exceeded").
LoopExit ==
    /\ pc = "attempt"
    /\ ~InLoop(attempt, max_retries)
    /\ ret' = Raised("MaxRetriesExceeded")
    /\ pc' = ReturnTo(caller)
    /\ UNCHANGED <<cfgVars, raceVars, tsVars, now, issued, op, caller, headers, attempt,
                   pre, exchanges, lastResp, nHttp, lastSent, sleeps, authRetry,
                   fallback, nRefresh, kwHeaders, waitVars>>

\* DataHiveAPI constructed from a configuration; its token service is new.
Next ==
    \/ Tick
    \/ Done
    \/ SendStart
    \/ AttemptOk
    \/ AttemptAuthRetry
    \/ AttemptBackoff
    \/ AttemptRaise
    \/ LoopExit

Spec == Init /\ [][Next]_vars

(* -------------- DataHiveClient.wait_for_query_completion -------------- *)

\* A loop condition that lets a poll start at the deadline.
BeforeDeadline_Inclusive(nw, st, t) == nw - st <= t

\* The loop condition: time.time() - start_time < timeout.
BeforeDeadline(nw, st, t) == nw - st < t

\* status.get("state") in ["COMPLETED", "SUCCEEDED"]
IsSuccessState(q) == q \in {"COMPLETED", "SUCCEEDED"}

\* A failure test that knows FAILED only.
IsFailureState_FailedOnly(q) == q = "FAILED"

\* status.get("state") in ["FAILED", "CANCELLED"]
IsFailureState(q) == q \in {"FAILED", "CANCELLED"}

\* _make_request has returned to its caller: its frame is gone.
RequestOver ==
    /\ caller' = "none"
    /\ headers' = NoHeaders
    /\ kwHeaders' = FALSE
    /\ attempt' = 0
    /\ nHttp' = 0
    /\ lastSent' = NoSent
    /\ sleeps' = <<>>
    /\ authRetry' = None
    /\ fallback' = FALSE
    /\ nRefresh' = 0
    /\ exchanges' = 0
    /\ ret' = NoResult

\* The caller invokes wait_for_query_completion: start_time is read.
WaitStart ==
    /\ CanStart
    /\ \E t \in Timeouts : timeout' = t
    /\ start_time' = now
    /\ op' = "wait"
    /\ pc' = "wait_loop"
    /\ UNCHANGED <<cfgVars, raceVars, tsVars, now, issued, ret, pre, exchanges, lastResp,
                   reqVars, status, polls, downloads, wres, pollHist>>

\* The loop condition holds: get_query_status calls _make_request.
WaitPoll ==
    /\ pc = "wait_loop"
    /\ BeforeDeadline(now, start_time, timeout)
    /\ BeginRequest("status", FALSE, 0)
    /\ polls' = polls + 1
    /\ pollAt' = now
    /\ UNCHANGED <<op, start_time, timeout, status, downloads, wres, pollEnd,
                   waitSleeps>>

\* The loop condition fails: TimeoutError.
WaitTimeout ==
    /\ pc = "wait_loop"
    /\ ~BeforeDeadline(now, start_time, timeout)
    /\ wres' = WaitResult("raise", "TimeoutError", "did not complete")
    /\ pc' = "idle"
    /\ UNCHANGED <<cfgVars, raceVars, tsVars, now, issued, op, ret, pre, exchanges, lastResp,
                   reqVars, start_time, timeout, status, polls, downloads, pollHist>>

\* The poll yields no status: get_query_status wraps and raises the error
\* of _make_request, or of response.json() on a body that is no JSON; or
\* the body is JSON but no object, and status.get raises AttributeError.
\* The exception leaves wait_for_query_completion.
WaitStatusRaise ==
    /\ pc = "wait_status"
    /\ wres' \in IF ret.kind = "raise"
                 THEN {WaitResult("raise", "QueryStatusRetrievalFailed", ret.err)}
                 ELSE {WaitResult("raise", "QueryStatusRetrievalFailed", "JSONDecodeError"),
                       WaitResult("raise", "AttributeError", "no attribute get")}
    /\ pc' = "idle"
    /\ RequestOver
    /\ UNCHANGED <<cfgVars, raceVars, tsVars, now, issued, op, pre, lastResp,
                   start_time, timeout, status, polls, downloads, pollHist>>

\* The poll observed COMPLETED or SUCCEEDED: download_results calls
\* _make_request.
WaitStatusSuccess ==
    /\ pc = "wait_status"
    /\ ret.kind = "ok"
    /\ \E q \in {x \in QueryStates : IsSuccessState(x)} :
         status' = [state |-> q, error |-> "Unknown error"]
    /\ BeginRequest("download", FALSE, 0)
    /\ downloads' = downloads + 1
    /\ UNCHANGED <<op, start_time, timeout, polls, wres, pollHist>>

\* The poll observed FAILED or CANCELLED: the job failure is raised with
\* status.get('error', 'Unknown error').
WaitStatusFailure ==
    /\ pc = "wait_status"
    /\ ret.kind = "ok"
    /\ \E q \in {x \in QueryStates : IsFailureState(x)}, e \in QueryErrors :
         /\ status' = [state |-> q, error |-> e]
         /\ wres' = WaitResult("raise", "QueryFailed", e)
    /\ pc' = "idle"
    /\ RequestOver
    /\ UNCHANGED <<cfgVars, raceVars, tsVars, now, issued, op, pre, lastResp,
                   start_time, timeout, polls, downloads, pollHist>>

\* The poll observed any other state: time.sleep(5), then the loop
\* condition again.
WaitStatusSleep ==
    /\ pc = "wait_status"
    /\ ret.kind = "ok"
    /\ \E q \in {x \in QueryStates : ~IsSuccessState(x) /\ ~IsFailureState(x)} :
         status' = [state |-> q, error |-> "Unknown error"]
    /\ now' = now + PollInterval
    /\ pollEnd' = now
    /\ waitSleeps' = waitSleeps + 1
    /\ pc' = "wait_loop"
    /\ RequestOver
    /\ UNCHANGED <<cfgVars, raceVars, tsVars, issued, op, pre, lastResp,
                   start_time, timeout, polls, downloads, wres, pollAt>>

\* download_results returned the results, or raised and wrapped the error
\* of _make_request or of response.json() on a body that is no JSON.
WaitDownload ==
    /\ pc = "wait_download"
    /\ wres' \in IF ret.kind = "ok"
                 THEN {WaitResult("ok", "none", "results"),
                       WaitResult("raise", "ResultsDownloadFailed", "JSONDecodeError")}
                 ELSE {WaitResult("raise", "ResultsDownloadFailed", ret.err)}
    /\ pc' = "idle"
    /\ RequestOver
    /\ UNCHANGED <<cfgVars, raceVars, tsVars, now, issued, op, pre, lastResp,
                   start_time, timeout, status, polls, downloads, pollHist>>

\* DataHiveClient constructed from a configuration. The wait loop reads
\* neither cache_expiry_buffer nor max_retries; with these values its nested
\* requests return, raise, sleep, refresh and fall back.
InitWait == Init /\ cache_expiry_buffer = Some(0) /\ max_retries \in {-1, 0, 1}

NextWait ==
    \/ Tick
    \/ Done
    \/ WaitStart
    \/ WaitPoll
    \/ WaitTimeout
    \/ WaitStatusRaise
    \/ WaitStatusSuccess
    \/ WaitStatusFailure
    \/ WaitStatusSleep
    \/ WaitDownload
    \/ AttemptOk
    \/ AttemptAuthRetry
    \/ AttemptBackoff
    \/ AttemptRaise
    \/ LoopExit

SpecWait == InitWait /\ [][NextWait]_vars

\* The calls are synchronous: a wait that has begun keeps running, each
\* HTTP attempt is answered or fails, and each sleep ends.
WaitStep ==
    \/ WaitPoll
    \/ WaitTimeout
    \/ WaitStatusRaise
    \/ WaitStatusSuccess
    \/ WaitStatusFailure
    \/ WaitStatusSleep
    \/ WaitDownload
    \/ AttemptOk
    \/ AttemptAuthRetry
    \/ AttemptBackoff
    \/ AttemptRaise
    \/ LoopExit

SpecWaitFair == SpecWait /\ WF_vars(WaitStep)

(* ------------- get_access_token called from two threads --------------- *)

\* Nothing in TokenService takes a lock: a thread switch can fall between
\* any two statements. Each action below is one statement (or one blocking
\* call) of one thread.

\* if self._is_token_valid(): the thread reads the cache and the clock.
ThreadCheck ==
    \E t \in Threads :
        /\ threads[t].pc = "idle"
        /\ now <= MaxClock
        /\ threads' = [threads EXCEPT ![t] =
              [@ EXCEPT !.pc = IF IsTokenValid(TS, now, cache_expiry_buffer)
                               THEN "return" ELSE "post",
                        !.seen = TS,
                        !.seenAt = now]]
        /\ UNCHANGED <<cfgVars, tsVars, now, issued, pc, op, ret, pre, exchanges,
                       lastResp, reqVars, waitVars, raceLog>>

\* requests.post, raise_for_status, response.json() and
\* token_data['access_token']: the exchange is made; the two handled
\* failures raise, and otherwise the thread holds the answer.
ThreadPost ==
    \E t \in Threads, r \in ProviderResponses(issued) :
        /\ threads[t].pc = "post"
        /\ exchanges' = exchanges + 1
        /\ IF r.kind \in {"transport", "notoken"}
           THEN /\ threads' = [threads EXCEPT ![t] =
                      [@ EXCEPT !.pc = "done", !.x = 1,
                                !.ret = AcquireNewToken(TS, r, now, issued).res]]
                /\ issued' = issued
           ELSE /\ threads' = [threads EXCEPT ![t] =
                      [@ EXCEPT !.pc = "set_token", !.x = 1, !.resp = r,
                                !.tok = issued + 1]]
                /\ issued' = issued + 1
        /\ UNCHANGED <<cfgVars, tsVars, now, pc, op, ret, pre, lastResp, reqVars,
                       waitVars, raceLog>>

\* self.access_token = token_data['access_token']
ThreadSetToken ==
    \E t \in Threads :
        /\ threads[t].pc = "set_token"
        /\ access_token' = Some(threads[t].tok)
        /\ raceLog' = Append(raceLog, [thread |-> t, field |-> "access_token"])
        /\ threads' = [threads EXCEPT ![t] = [@ EXCEPT !.pc = "set_expiry"]]
        /\ UNCHANGED <<cfgVars, refresh_token, token_expires_at, revoked, discarded,
                       now, issued, pc, op, ret, pre, exchanges, lastResp, reqVars,
                       waitVars>>

\* self.token_expires_at = datetime.now() + timedelta(seconds=expires_in);
\* an expires_in that is no number raises TypeError here.
ThreadSetExpiry ==
    \E t \in Threads :
        /\ threads[t].pc = "set_expiry"
        /\ IF threads[t].resp.kind = "badexp"
           THEN /\ threads' = [threads EXCEPT ![t] =
                      [@ EXCEPT !.pc = "done", !.ret = Raised("TypeError")]]
                /\ UNCHANGED <<token_expires_at, raceLog>>
           ELSE /\ token_expires_at' = Some(now + ExpiresIn(threads[t].resp))
                /\ raceLog' = Append(raceLog, [thread |-> t, field |-> "token_expires_at"])
                /\ threads' = [threads EXCEPT ![t] = [@ EXCEPT !.pc = "return"]]
        /\ UNCHANGED <<cfgVars, access_token, refresh_token, revoked, discarded,
                       now, issued, pc, op, ret, pre, exchanges, lastResp, reqVars,
                       waitVars>>

\* return self.access_token, in get_access_token and in _acquire_new_token:
\* the field is read when the statement runs.
ThreadReturn ==
    \E t \in Threads :
        /\ threads[t].pc = "return"
        /\ threads' = [threads EXCEPT ![t] =
              [@ EXCEPT !.pc = "done", !.ret = Returned(access_token)]]
        /\ UNCHANGED <<cfgVars, tsVars, now, issued, pc, op, ret, pre, exchanges,
                       lastResp, reqVars, waitVars, raceLog>>

\* Both calls are over; the threads may call again.
ThreadReset ==
    /\ \A t \in Threads : threads[t].pc = "done"
    /\ threads' = [t \in Threads |-> IdleThread]
    /\ raceLog' = <<>>
    /\ exchanges' = 0
    /\ UNCHANGED <<cfgVars, tsVars, now, issued, pc, op, ret, pre, lastResp,
                   reqVars, waitVars>>

\* A TokenService shared by two threads. max_retries is not read; with the
\* buffer absent or 0 the cache is found empty, valid and stale.
InitRace == Init /\ max_retries = 0 /\ cache_expiry_buffer \in {None, Some(0)}

NextRace ==
    \/ Tick
    \/ ThreadCheck
    \/ ThreadPost
    \/ ThreadSetToken
    \/ ThreadSetExpiry
    \/ ThreadReturn
    \/ ThreadReset

SpecRace == InitRace /\ [][NextRace]_vars

(* ============================ properties ============================== *)

\* The cache as the token operation found it holds a token that the claim
\* calls usable: a token is cached and now < expires_at - buffer.
CachedUsable ==
    /\ pre.access_token # None
    /\ pre.token_expires_at # None
    /\ now < pre.token_expires_at[1] - BufferSeconds(cache_expiry_buffer)

\* The record a well-formed answer of the provider yields.
NewRecord ==
    [access_token |-> Some(lastResp.tok),
     token_expires_at |-> Some(lastResp.at + lastResp.expires_in)]

\* C1: get_access_token returns the cached token, with no exchange and the
\* cache untouched, exactly when a token is cached and now < expires_at -
\* buffer; in every other case it makes exactly one exchange, and the token
\* the provider answered with is stored as the new record and returned (an
\* exchange that yields no well-formed answer raises instead).
C1_GetValidToken ==
    op = "get" =>
        IF CachedUsable
        THEN /\ exchanges = 0
             /\ ret = Returned(pre.access_token)
             /\ TS = pre
        ELSE /\ exchanges = 1
             /\ lastResp.at = now
             /\ IF lastResp.kind = "token"
                THEN /\ ret = Returned(Some(lastResp.tok))
                     /\ TS = NewRecord
                     /\ Some(lastResp.tok) # pre.access_token
                ELSE ret.kind = "raise"

\* C1 witness: a call answered from the cache, the cached token being the
\* one an earlier acquisition stored.
C1_Witness ==
    /\ op = "get"
    /\ CachedUsable
    /\ exchanges = 0
    /\ ret = Returned(Some(1))
    /\ now > 0

\* C7: whenever _is_token_valid holds, now < expires_at, for every
\* configured buffer.
C7_NeverValidAfterExpiry ==
    IsTokenValid(TS, now, cache_expiry_buffer) => now < token_expires_at[1]

\* C8: after get_access_token or refresh_access_token the cached pair is the
\* pair from before the call or the pair of one new answer.
C8_WholesaleReplace ==
    op \in {"get", "refresh"} =>
        \/ TS = pre
        \/ lastResp.kind = "token" /\ TS = NewRecord

\* C9: refresh_access_token makes an exchange whatever the cache holds; when
\* the provider answers with a token, the cache is the new record, with
\* expires_at the acquisition time plus expires_in, and the new token is
\* returned.
C9_ForceRefresh ==
    op = "refresh" =>
        /\ exchanges = 1
        /\ lastResp.at = now
        /\ lastResp.kind = "token" =>
             /\ TS = NewRecord
             /\ ret = Returned(Some(lastResp.tok))
             /\ Some(lastResp.tok) # pre.access_token

\* C9 witness: a forced refresh of a token that was still valid.
C9_Witness ==
    /\ op = "refresh"
    /\ CachedUsable
    /\ ret.kind = "ok"
    /\ ret.token # pre.access_token
    /\ TS = NewRecord

C15_RefreshDiscards ==
    (op = "get" /\ ret.kind = "ok" /\ discarded # None) => ret.token # discarded

\* A _make_request call made by the caller has ended.
SendOver == op = "send" /\ pc = "idle"

\* C2: one _make_request call with max_retries >= 0 issues at most
\* max_retries + 1 HTTP requests; every retry, after a 401 or after a
\* backoff, draws on the one loop counter, so the requests issued so far
\* equal the counter.
C2_AttemptBound ==
    max_retries >= 0 =>
        /\ nHttp <= max_retries + 1
        /\ pc = "attempt" => nHttp = attempt

\* C2 witness: a call that used all its attempts, one retry after a 401 and
\* one after a backoff.
C2_Witness ==
    /\ SendOver
    /\ max_retries = 2
    /\ nHttp = max_retries + 1
    /\ Len(sleeps) = 1
    /\ exchanges >= 1

\* C3: between a 401 with attempts remaining and the next attempt exactly one
\* credential exchange happens, and the next attempt's Authorization header
\* carries the token that refresh obtained.
C3_OneExchangeOn401 ==
    (pc = "attempt" /\ authRetry # None) =>
        /\ authRetry[1].x = 1
        /\ headers.auth = authRetry[1].tok

\* C4: a _make_request call that ends by raising has made exactly
\* max_retries + 1 HTTP attempts and raises the error of its last attempt.
C4_RaisesOnlyAfterExhaustion ==
    (SendOver /\ ret.kind = "raise" /\ max_retries >= 0) =>
        /\ nHttp = max_retries + 1
        /\ lastSent.outcome \in {"401", "http_error", "exception"}
        /\ ret.err = (IF lastSent.outcome = "exception" THEN "RequestException"
                      ELSE "HTTPError")

\* C5: every sleep of a call follows a failed non-401 attempt with attempts
\* remaining and lasts 2^attempt seconds, attempt being that attempt's index
\* in the loop counter; every such attempt is followed by its sleep; the
\* delays of one call do not decrease; and with max_retries = 2 and responses
\* 500, 500, 200 the call succeeds on the third attempt after sleeping 1 and
\* then 2 seconds.
C5_BackoffDelays ==
    /\ \A i \in 1 .. Len(sleeps) :
         /\ sleeps[i].delay = Pow(2, sleeps[i].attempt)
         /\ sleeps[i].attempt >= 0 /\ sleeps[i].attempt < max_retries
         /\ sleeps[i].outcome \in {"http_error", "exception"}
    /\ \A i, j \in 1 .. Len(sleeps) :
         i < j => /\ sleeps[i].attempt < sleeps[j].attempt
                  /\ sleeps[i].delay <= sleeps[j].delay
    /\ (pc = "attempt" /\ lastSent.outcome \in {"http_error", "exception"}) =>
         /\ Len(sleeps) >= 1
         /\ sleeps[Len(sleeps)].attempt = nHttp - 1
         /\ sleeps[Len(sleeps)].outcome = lastSent.outcome
    /\ (pc = "attempt" /\ lastSent.outcome = "401") =>
         \A i \in 1 .. Len(sleeps) : sleeps[i].attempt # nHttp - 1
    /\ (/\ SendOver /\ max_retries = 2 /\ lastSent.outcome = "ok"
        /\ Len(sleeps) = 2
        /\ \A i \in 1 .. Len(sleeps) : sleeps[i].outcome = "http_error") =>
         /\ ret.kind = "ok"
         /\ nHttp = 3
         /\ sleeps[1].delay = 1 /\ sleeps[2].delay = 2
         /\ sleeps[1].delay + sleeps[2].delay = 3

\* C5 witness: max_retries = 2 and responses 500, 500, 200.
C5_Witness ==
    /\ SendOver
    /\ max_retries = 2
    /\ ret.kind = "ok"
    /\ nHttp = 3
    /\ Len(sleeps) = 2
    /\ \A i \in 1 .. Len(sleeps) : sleeps[i].outcome = "http_error"
    /\ sleeps[1].delay + sleeps[2].delay = 3

\* The errors of _acquire_new_token.
TokenErrors == {"TokenAcquisitionFailed", "InvalidTokenResponse", "TypeError"}

\* C10: when get_access_token raises while the headers are built, the call
\* goes on with Content-Type, Accept and User-Agent and no Authorization, and
\* the request is issued with those headers; a token error reaches the caller
\* only from the forced refresh after a 401, and a call returns normally only
\* when its last attempt was answered without an HTTP error.
C10_HeadersFallback ==
    /\ (pc = "attempt" /\ fallback) => (headers.auth = None /\ headers.content)
    /\ lastSent.fallback => (lastSent.auth = None /\ lastSent.content)
    /\ (pc = "attempt" /\ ~fallback) => headers.auth # None
    /\ SendOver =>
         /\ ret.kind \in {"ok", "raise"}
         /\ ret.kind = "ok" <=> lastSent.outcome = "ok"
         /\ ret.err \in TokenErrors => (authRetry # None /\ lastSent.outcome = "401")

\* C10 witness: the token could not be obtained, and the request went out
\* without Authorization and was answered.
C10_Witness ==
    /\ SendOver
    /\ ret.kind = "ok"
    /\ nHttp >= 1
    /\ lastSent.fallback
    /\ lastSent.auth = None
    /\ lastSent.content

\* C13: one _make_request call invokes refresh_access_token at most once,
\* whatever the responses.
C13_SingleRefresh == nRefresh <= 1

\* C13 amended: refresh_access_token is invoked once for each 401 answered
\* with attempts remaining and never otherwise, so at most max_retries times
\* in one call: every attempt that did not end the call was followed by one
\* refresh or by one backoff sleep, both drawing on the one loop counter.
C13_RefreshPer401 ==
    /\ nRefresh <= nHttp
    /\ max_retries >= 0 => nRefresh <= max_retries
    /\ max_retries < 0 => nRefresh = 0
    /\ pc = "attempt" => nRefresh + Len(sleeps) = attempt
    /\ authRetry # None => (lastSent.outcome = "401" /\ nRefresh >= 1)
    /\ (pc = "attempt" /\ lastSent.outcome = "401") => authRetry # None

\* C13 witness: a call answered 401, 401, 200 refreshed the token twice.
C13_Witness ==
    /\ SendOver
    /\ max_retries = 2
    /\ nRefresh = 2
    /\ nHttp = 3
    /\ ret.kind = "ok"

\* C14: after a 401 answered with attempts remaining the next attempt is
\* made with no sleep, the clock being where the 401 was received; the call
\* sleeps only after an attempt that failed with another HTTP error or a
\* transport exception while attempts remained, and then for that attempt's
\* delay; a 401 on the last attempt (always, with max_retries = 0) triggers
\* no refresh and ends the call with the HTTP error of that response.
C14_AuthRetryImmediate ==
    /\ \A i \in 1 .. Len(sleeps) :
         /\ sleeps[i].outcome \in {"http_error", "exception"}
         /\ sleeps[i].attempt < max_retries
    /\ (pc = "attempt" /\ lastSent.outcome = "401") =>
         /\ now = lastSent.at
         /\ attempt = nHttp
         /\ \A i \in 1 .. Len(sleeps) : sleeps[i].attempt # nHttp - 1
    /\ (pc = "attempt" /\ lastSent.outcome \in {"http_error", "exception"}) =>
         /\ Len(sleeps) >= 1
         /\ now = lastSent.at + sleeps[Len(sleeps)].delay
    /\ (lastSent.outcome = "401" /\ nHttp = max_retries + 1) =>
         /\ pc # "attempt"
         /\ authRetry = None
         /\ ret = Raised("HTTPError")
         /\ nRefresh = nHttp - 1 - Len(sleeps)
         /\ max_retries = 0 => (nRefresh = 0 /\ exchanges <= 1)

\* C14 witness: a 401 was retried at once, two seconds into the call, and
\* the retry, the last attempt, was answered 401 again.
C14_Witness ==
    /\ SendOver
    /\ max_retries = 2
    /\ nHttp = 3
    /\ lastSent.outcome = "401"
    /\ Len(sleeps) = 1
    /\ nRefresh = 1
    /\ ret = Raised("HTTPError")

\* The cache that thread t's validity check read was empty or stale.
SawNoValidToken(t) ==
    \/ threads[t].seen.access_token = None
    \/ threads[t].seen.token_expires_at = None
    \/ threads[t].seenAt >=
         threads[t].seen.token_expires_at[1] - BufferSeconds(cache_expiry_buffer)

\* The thread whose write of field f is the last in raceLog.
LastWriter(f) ==
    LET idx == {i \in 1 .. Len(raceLog) : raceLog[i].field = f}
    IN  raceLog[CHOOSE i \in idx : \A j \in idx : j <= i].thread

\* C17: nothing orders the check and the acquisition of one thread against
\* those of another: every thread whose check read an empty or stale cache
\* goes on to a credential exchange of its own, whatever the other thread
\* has written since, so two threads that both read such a cache make two
\* exchanges; and each write of a field of the cache replaces what the other
\* thread wrote before.
C17_CheckThenAcquireRace ==
    /\ \A t \in Threads :
         threads[t].pc # "idle" =>
             (SawNoValidToken(t) <=> (threads[t].pc = "post" \/ threads[t].x = 1))
    /\ exchanges = threads[1].x + threads[2].x
    /\ (\A t \in Threads : threads[t].pc = "done" /\ SawNoValidToken(t)) =>
         exchanges = 2
    /\ (\E i \in 1 .. Len(raceLog) : raceLog[i].field = "access_token") =>
         access_token = Some(threads[LastWriter("access_token")].tok)

\* C17 witness: both threads read the same empty cache, both made an
\* exchange and were answered with a token, thread 1 stored its record
\* first, and the record of thread 2 replaced it.
C17_Witness ==
    /\ \A t \in Threads :
         /\ threads[t].pc = "done"
         /\ threads[t].seen = EmptyCache
         /\ threads[t].resp.kind = "token"
         /\ threads[t].ret.kind = "ok"
    /\ exchanges = 2
    /\ Len(raceLog) = 4
    /\ raceLog[1].thread = 1 /\ raceLog[2].thread = 1
    /\ raceLog[3].thread = 2 /\ raceLog[4].thread = 2
    /\ threads[1].tok # threads[2].tok
    /\ access_token = Some(threads[2].tok)
    /\ threads[1].ret.token # access_token

\* C18: with max_retries >= 0 the loop of _make_request never runs out: the
\* call ends inside the loop, returning a response that is no HTTP error or
\* raising (the error of the last attempt, or that of a forced refresh);
\* "Max retries exceeded" is raised only with max_retries negative, after no
\* HTTP attempt at all, and then always.
C18_MaxRetriesUnreachable ==
    /\ ret.err = "MaxRetriesExceeded" => (max_retries < 0 /\ nHttp = 0)
    /\ (pc = "attempt" /\ max_retries >= 0) => InLoop(attempt, max_retries)
    /\ (SendOver /\ max_retries >= 0) =>
         /\ nHttp >= 1
         /\ \/ ret.kind = "ok" /\ lastSent.outcome = "ok"
            \/ /\ ret.kind = "raise"
               /\ ret.err \in {"HTTPError", "RequestException"} \cup TokenErrors
               /\ lastSent.outcome # "ok"
    /\ (SendOver /\ max_retries < 0) =>
         /\ ret = Raised("MaxRetriesExceeded")
         /\ nHttp = 0
         /\ lastSent = NoSent

\* C18 witness: with max_retries = -1 the call built its headers, with an
\* exchange, and raised "Max retries exceeded" without an HTTP attempt.
C18_Witness ==
    /\ SendOver
    /\ max_retries = -1
    /\ exchanges = 1
    /\ nHttp = 0
    /\ ret = Raised("MaxRetriesExceeded")

\* C19: every HTTP attempt of a call whose caller passed extra headers
\* carries them, also after a 401-triggered refresh has rebuilt the headers.
C19_ExtraHeadersKept ==
    (lastSent.outcome # "none" /\ kwHeaders) => lastSent.extra

\* C20: every HTTP attempt that carries an Authorization header carries a
\* token that _is_token_valid accepts (now < expires_at - buffer) when the
\* attempt is made, also after backoff sleeps.
C20_SentTokenValid ==
    (lastSent.outcome # "none" /\ lastSent.auth # None) => lastSent.valid

\* A wait_for_query_completion call has ended.
WaitOver == op = "wait" /\ pc = "idle"

\* C6: once a poll has observed FAILED or CANCELLED the call is over, with
\* the job failure carrying the error message of that poll and no download;
\* once a poll has observed COMPLETED or SUCCEEDED the results are downloaded
\* (one download) and what the call returns is the downloaded results; while
\* only non-terminal states are observed nothing is downloaded, and a call
\* that ends then ends with TimeoutError, the deadline being reached (or
\* with the error of a poll that raised and so observed nothing).
C6_WaitForCompletion ==
    op = "wait" =>
        /\ status.state \in {"FAILED", "CANCELLED"} =>
             /\ pc = "idle"
             /\ wres = WaitResult("raise", "QueryFailed", status.error)
             /\ downloads = 0
        /\ status.state \in {"COMPLETED", "SUCCEEDED"} =>
             /\ downloads = 1
             /\ polls >= 1
             /\ pc # "idle" => (caller = "download" /\ wres = NoWaitResult)
             /\ pc = "idle" =>
                  \/ wres = WaitResult("ok", "none", "results")
                  \/ wres.kind = "raise" /\ wres.err = "ResultsDownloadFailed"
        /\ status.state \in {"RUNNING", "absent"} =>
             /\ downloads = 0
             /\ pc # "idle" => wres = NoWaitResult
             /\ pc = "idle" =>
                  \/ /\ wres.kind = "raise" /\ wres.err = "TimeoutError"
                     /\ now - start_time >= timeout
                  \/ /\ wres.kind = "raise"
                     /\ wres.err \in {"QueryStatusRetrievalFailed", "AttributeError"}
                     /\ polls >= 1

\* The deadline and the pacing of the polls: a poll begins only while the
\* time elapsed since the call began is below timeout, so never with
\* timeout <= 0; between the end of one poll and the beginning of the next
\* lies one sleep of PollInterval seconds and nothing else, so poll k begins
\* no earlier than (k - 1) * PollInterval seconds into the call.
PollsPaced ==
    op = "wait" =>
        /\ polls >= 1 =>
             /\ pollAt - start_time < timeout
             /\ pollAt - start_time >= (polls - 1) * PollInterval
             /\ waitSleeps \in {polls - 1, polls}
        /\ timeout <= 0 => polls = 0
        /\ polls = 0 => waitSleeps = 0
        /\ pc = "wait_loop" =>
             /\ waitSleeps = polls
             /\ polls >= 1 => now = pollEnd + PollInterval
        /\ pc \in {"attempt", "wait_status", "wait_download"} =>
             /\ waitSleeps = polls - 1
             /\ polls >= 2 => pollAt = pollEnd + PollInterval
        /\ (pc = "idle" /\ wres.err = "TimeoutError") =>
             /\ waitSleeps = polls
             /\ now - start_time >= timeout
             /\ polls >= 1 => now = pollEnd + PollInterval

\* C16 as claimed: the deadline and the pacing, and every call that ends
\* ends in a result, a job failure or TimeoutError.
C16_ThreeEndings ==
    /\ PollsPaced
    /\ WaitOver => \/ wres = WaitResult("ok", "none", "results")
                    \/ wres.err \in {"QueryFailed", "TimeoutError"}

\* The ways a wait ends: the three of the claim, and an error raised by a
\* status poll, by reading its body, or by the download.
WaitEndings ==
    WaitOver =>
        \/ wres = WaitResult("ok", "none", "results")
        \/ wres.kind = "raise" /\ wres.err \in {"QueryFailed", "TimeoutError"}
        \/ /\ wres.kind = "raise"
           /\ wres.err \in {"QueryStatusRetrievalFailed", "AttributeError",
                             "ResultsDownloadFailed"}
           /\ polls >= 1

\* C16 amended: the deadline and the pacing hold throughout, every call that
\* ends ends in one of the five ways, and every call that has begun ends.
C16_WaitTerminates ==
    /\ [](PollsPaced /\ WaitEndings)
    /\ (op = "wait") ~> WaitOver

\* C16 witness: after a first poll that was retried after a backoff and a
\* sleep of five seconds, the deadline was reached and the call raised
\* TimeoutError without a second poll.
C16_Witness ==
    /\ WaitOver
    /\ timeout = MaxTimeout
    /\ polls = 1
    /\ waitSleeps = 1
    /\ pollEnd > pollAt
    /\ wres.err = "TimeoutError"

\* C6 witness: the second poll observed SUCCEEDED and the results came back.
C6_Witness ==
    /\ WaitOver
    /\ polls = 2
    /\ status.state = "SUCCEEDED"
    /\ downloads = 1
    /\ wres = WaitResult("ok", "none", "results")

====
